---- MODULE Spec2Model ----
(***************************************************************************)
(* Model of package goavl (src/avl.go): the AVL tree keyed by Item, with   *)
(* its nodes kept in a heap of cells addressed by pointers.  Keys are the  *)
(* Integer items of the package's tests.                                   *)
(***************************************************************************)
EXTENDS Integers, Sequences, FiniteSets, TLC

\* ------------------------------------------------------------------ bounds
\* Keys handed to the tree are 1..MaxKey.
MaxKey == 7

\* Cells of the heap (addresses a node can have).
MaxNodes == 10

Keys == 1..MaxKey
NodeIds == 1..MaxNodes

\* The nil pointer, and the key of a cell that holds no node.
Nil == 0
NoKey == 0

\* error values (nil, or the text of the fmt.Errorf)
NoErr == "nil"
ErrDuplicate == "Key already in the tree"
ErrNotFound == "Key not found in the tree"
ErrEmpty == "Empty tree"

VARIABLES
    heap,    \* NodeIds -> treeNode cell (key, left, right, h); h = 0: not allocated
    root,    \* Tree.root
    size,    \* Tree.size
    panic,   \* TRUE once a call dereferenced a nil pointer (the program crashed)
    ret,     \* the last call: its name, its key (argument, or result of Min/Max), its error,
             \* the frames of its recursion
    S,       \* the mathematical set of keys the calls so far describe
    netOk    \* number of Insert calls that returned nil minus Delete calls that returned nil

vars == <<heap, root, size, panic, ret, S, netOk>>

\* ------------------------------------------------------------ Item (Integer)
Equal(i, j) == i = j
\* a Less that also holds of equal items
Less_orEqual(i, j) == i <= j

Less(i, j) == i < j

\* ------------------------------------------------------------------ treeNode
FreeCell == [key |-> NoKey, left |-> Nil, right |-> Nil, h |-> 0]

FreeIds(hp) == {i \in DOMAIN hp : hp[i].h = 0}

\* newNode: a fresh cell holding key as a leaf
newNode(hp, key) ==
    LET id == CHOOSE i \in FreeIds(hp) : \A j \in FreeIds(hp) : i <= j
    IN  [hp |-> [hp EXCEPT ![id] = [key |-> key, left |-> Nil, right |-> Nil, h |-> 1]],
         n |-> id]

\* drop: the cell of a node nothing points to any more
drop(hp, n) == [hp EXCEPT ![n] = FreeCell]

\* a height that gives -1 for the absent subtree
height_nilMinusOne(hp, n) == IF n = Nil THEN -1 ELSE hp[n].h

height(hp, n) == IF n = Nil THEN 0 ELSE hp[n].h

\* a max with the comparison the wrong way round: the smaller of the two
max_smaller(a, b) == IF a > b THEN b ELSE a

max(a, b) == IF a > b THEN a ELSE b

updateHeight(hp, n) ==
    [hp EXCEPT ![n].h = 1 + max(height(hp, hp[n].left), height(hp, hp[n].right))]

\* a right rotation that forgets to hand the promoted node's right subtree to n
subtreeRotateRight_dropsT2(hp, n) ==
    LET m == hp[n].left IN
    IF m = Nil THEN [hp |-> hp, n |-> n, panic |-> TRUE]
    ELSE LET h1 == [hp EXCEPT ![m].right = n, ![n].left = Nil]
             h2 == updateHeight(h1, n)
             h3 == updateHeight(h2, m)
         IN  [hp |-> h3, n |-> m, panic |-> FALSE]

\* a right rotation that recomputes the promoted node's height before n's
subtreeRotateRight_promotedFirst(hp, n) ==
    LET m == hp[n].left IN
    IF m = Nil THEN [hp |-> hp, n |-> n, panic |-> TRUE]
    ELSE LET t2 == hp[m].right
             h1 == [hp EXCEPT ![m].right = n, ![n].left = t2]
             h2 == updateHeight(h1, m)
             h3 == updateHeight(h2, n)
         IN  [hp |-> h3, n |-> m, panic |-> FALSE]

subtreeRotateRight(hp, n) ==
    LET m == hp[n].left IN
    IF m = Nil THEN [hp |-> hp, n |-> n, panic |-> TRUE]
    ELSE LET t2 == hp[m].right
             h1 == [hp EXCEPT ![m].right = n, ![n].left = t2]
             h2 == updateHeight(h1, n)
             h3 == updateHeight(h2, m)
         IN  [hp |-> h3, n |-> m, panic |-> FALSE]

\* a left rotation that recomputes the promoted node's height before n's
subtreeRotateLeft_promotedFirst(hp, n) ==
    LET m == hp[n].right IN
    IF m = Nil THEN [hp |-> hp, n |-> n, panic |-> TRUE]
    ELSE LET t2 == hp[m].left
             h1 == [hp EXCEPT ![m].left = n, ![n].right = t2]
             h2 == updateHeight(h1, m)
             h3 == updateHeight(h2, n)
         IN  [hp |-> h3, n |-> m, panic |-> FALSE]

\* a left rotation that leaves n.right pointing at the promoted node
subtreeRotateLeft_keepsRight(hp, n) ==
    LET m == hp[n].right IN
    IF m = Nil THEN [hp |-> hp, n |-> n, panic |-> TRUE]
    ELSE LET h1 == [hp EXCEPT ![m].left = n]
             h2 == updateHeight(h1, n)
             h3 == updateHeight(h2, m)
         IN  [hp |-> h3, n |-> m, panic |-> FALSE]

subtreeRotateLeft(hp, n) ==
    LET m == hp[n].right IN
    IF m = Nil THEN [hp |-> hp, n |-> n, panic |-> TRUE]
    ELSE LET t2 == hp[m].left
             h1 == [hp EXCEPT ![m].left = n, ![n].right = t2]
             h2 == updateHeight(h1, n)
             h3 == updateHeight(h2, m)
         IN  [hp |-> h3, n |-> m, panic |-> FALSE]

balanceFactor(hp, n) ==
    IF n = Nil THEN 0 ELSE height(hp, hp[n].left) - height(hp, hp[n].right)

\* the result of a recursive call: the heap, the returned pointer, the error,
\* and the frames of the recursion that returned so far (the deepest first)
Res(hp, n, err, p) == [hp |-> hp, n |-> n, err |-> err, panic |-> p, log |-> <<>>]

\* What one frame of subtreeInsertNode or subtreeDeleteNode did: the node it
\* ran on, the balance factor it computed in step 3 (0 when it returned
\* before), the case it took, whether the key it compared in step 3 was equal
\* to the child's, the balance factor of the node it returned, and the key it
\* copied from the in-order successor (NoKey when it copied none).
Frame(n, bal, case, eq) ==
    [at |-> n, bal |-> bal, case |-> case, eq |-> eq, out |-> 0, succ |-> NoKey]

\* the frame f returned x
noted(f, x) == [x EXCEPT !.log = <<[f EXCEPT !.out = balanceFactor(x.hp, x.n)]>>]

\* the frame that returned x had copied key from the in-order successor
copied(key, x) == [x EXCEPT !.log[1].succ = key]

\* a frame that returned x after its recursive call returned r
after(r, x) == [x EXCEPT !.log = r.log \o @]

\* a left-right case without its inner rotation: the right rotation only
rotateLeftRight_single(hp, n, err) ==
    LET b == subtreeRotateRight(hp, n) IN Res(b.hp, b.n, err, b.panic)

\* n.left = n.left.subtreeRotateLeft(); return n.subtreeRotateRight(), err
rotateLeftRight(hp, n, err) ==
    IF hp[n].left = Nil THEN Res(hp, n, err, TRUE)
    ELSE LET a == subtreeRotateLeft(hp, hp[n].left) IN
         IF a.panic THEN Res(a.hp, n, err, TRUE)
         ELSE LET b == subtreeRotateRight([a.hp EXCEPT ![n].left = a.n], n)
              IN  Res(b.hp, b.n, err, b.panic)

\* n.right = n.right.subtreeRotateRight(); return n.subtreeRotateLeft(), err
rotateRightLeft(hp, n, err) ==
    IF hp[n].right = Nil THEN Res(hp, n, err, TRUE)
    ELSE LET a == subtreeRotateRight(hp, hp[n].right) IN
         IF a.panic THEN Res(a.hp, n, err, TRUE)
         ELSE LET b == subtreeRotateLeft([a.hp EXCEPT ![n].right = a.n], n)
              IN  Res(b.hp, b.n, err, b.panic)

rotateRight(hp, n, err) ==
    LET b == subtreeRotateRight(hp, n) IN Res(b.hp, b.n, err, b.panic)

rotateLeft(hp, n, err) ==
    LET b == subtreeRotateLeft(hp, n) IN Res(b.hp, b.n, err, b.panic)

\* an insertion that rotates only once the heights differ by more than two
insertRebalance_lax(hp0, n, key, err) ==
    LET hp == updateHeight(hp0, n)
        bal == balanceFactor(hp, n)
    IN  IF bal > 2 THEN
            IF Less(key, hp[hp[n].left].key) THEN rotateRight(hp, n, err)
            ELSE rotateLeftRight(hp, n, err)
        ELSE IF bal < -2 THEN
            IF Less(key, hp[hp[n].right].key) THEN rotateRightLeft(hp, n, err)
            ELSE rotateLeft(hp, n, err)
        ELSE noted(Frame(n, bal, "none", FALSE), Res(hp, n, err, FALSE))

\* an insertion that takes the left-right case for a key below the left
\* child's and the left-left case otherwise
insertRebalance_swappedCases(hp0, n, key, err) ==
    LET hp == updateHeight(hp0, n)
        bal == balanceFactor(hp, n)
    IN  IF bal > 1 THEN
            IF Less(key, hp[hp[n].left].key) THEN rotateLeftRight(hp, n, err)
            ELSE rotateRight(hp, n, err)
        ELSE IF bal < -1 THEN
            IF Less(key, hp[hp[n].right].key) THEN rotateRightLeft(hp, n, err)
            ELSE rotateLeft(hp, n, err)
        ELSE noted(Frame(n, bal, "none", FALSE), Res(hp, n, err, FALSE))

\* an insertion that chooses the case by comparing the key with the node's own
\* key instead of the child's
insertRebalance_cmpNode(hp0, n, key, err) ==
    LET hp == updateHeight(hp0, n)
        bal == balanceFactor(hp, n)
    IN  IF bal > 1 THEN
            IF Less(key, hp[n].key)
            THEN noted(Frame(n, bal, "left left", FALSE), rotateRight(hp, n, err))
            ELSE noted(Frame(n, bal, "left right", Equal(key, hp[hp[n].left].key)),
                       rotateLeftRight(hp, n, err))
        ELSE IF bal < -1 THEN
            IF Less(key, hp[n].key)
            THEN noted(Frame(n, bal, "right left", FALSE), rotateRightLeft(hp, n, err))
            ELSE noted(Frame(n, bal, "right right", Equal(key, hp[hp[n].right].key)),
                       rotateLeft(hp, n, err))
        ELSE noted(Frame(n, bal, "none", FALSE), Res(hp, n, err, FALSE))

\* an insertion that updates the height and never rotates
insertRebalance_noRotate(hp0, n, key, err) ==
    Res(updateHeight(hp0, n), n, err, FALSE)

\* subtreeInsertNode, steps 2 and 3: height update and the four cases
insertRebalance(hp0, n, key, err) ==
    LET hp == updateHeight(hp0, n)
        bal == balanceFactor(hp, n)
    IN  IF bal > 1 THEN
            IF Less(key, hp[hp[n].left].key)
            THEN noted(Frame(n, bal, "left left", FALSE), rotateRight(hp, n, err))
            ELSE noted(Frame(n, bal, "left right", Equal(key, hp[hp[n].left].key)),
                       rotateLeftRight(hp, n, err))
        ELSE IF bal < -1 THEN
            IF Less(key, hp[hp[n].right].key)
            THEN noted(Frame(n, bal, "right left", FALSE), rotateRightLeft(hp, n, err))
            ELSE noted(Frame(n, bal, "right right", Equal(key, hp[hp[n].right].key)),
                       rotateLeft(hp, n, err))
        ELSE noted(Frame(n, bal, "none", FALSE), Res(hp, n, err, FALSE))

\* an insertion without the Equal branch: an equal key goes to the right
RECURSIVE subtreeInsertNode_noEqual(_, _, _)
subtreeInsertNode_noEqual(hp, n, key) ==
    IF n = Nil THEN
        LET a == newNode(hp, key) IN Res(a.hp, a.n, NoErr, FALSE)
    ELSE IF Less(key, hp[n].key) THEN
        LET r == subtreeInsertNode_noEqual(hp, hp[n].left, key) IN
        IF r.panic THEN r
        ELSE insertRebalance([r.hp EXCEPT ![n].left = r.n], n, key, r.err)
    ELSE
        LET r == subtreeInsertNode_noEqual(hp, hp[n].right, key) IN
        IF r.panic THEN r
        ELSE insertRebalance([r.hp EXCEPT ![n].right = r.n], n, key, r.err)

RECURSIVE subtreeInsertNode(_, _, _)
subtreeInsertNode(hp, n, key) ==
    IF n = Nil THEN
        LET a == newNode(hp, key) IN noted(Frame(Nil, 0, "new", FALSE), Res(a.hp, a.n, NoErr, FALSE))
    ELSE IF Less(key, hp[n].key) THEN
        LET r == subtreeInsertNode(hp, hp[n].left, key) IN
        IF r.panic THEN r
        ELSE after(r, insertRebalance([r.hp EXCEPT ![n].left = r.n], n, key, r.err))
    ELSE IF Equal(key, hp[n].key) THEN
        noted(Frame(n, 0, "duplicate", FALSE), Res(hp, n, ErrDuplicate, FALSE))
    ELSE
        LET r == subtreeInsertNode(hp, hp[n].right, key) IN
        IF r.panic THEN r
        ELSE after(r, insertRebalance([r.hp EXCEPT ![n].right = r.n], n, key, r.err))

\* a successor search that does not walk left
subtreeMin_noWalk(hp, n) == n

RECURSIVE subtreeMin(_, _)
subtreeMin(hp, n) == IF hp[n].left /= Nil THEN subtreeMin(hp, hp[n].left) ELSE n

\* a maximum search that stops at the first node
subtreeMax_noWalk(hp, n) == n

RECURSIVE subtreeMax(_, _)
subtreeMax(hp, n) == IF hp[n].right /= Nil THEN subtreeMax(hp, hp[n].right) ELSE n

\* a deletion that updates the height and never rotates
deleteRebalance_noRotate(hp0, n, err) ==
    noted(Frame(n, 0, "none", FALSE), Res(updateHeight(hp0, n), n, err, FALSE))

\* subtreeDeleteNode, steps 2 and 3: height update and the four cases
deleteRebalance(hp0, n, err) ==
    LET hp == updateHeight(hp0, n)
        bal == balanceFactor(hp, n)
    IN  IF bal > 1 THEN
            IF balanceFactor(hp, hp[n].left) >= 0
            THEN noted(Frame(n, bal, "left left", FALSE), rotateRight(hp, n, err))
            ELSE noted(Frame(n, bal, "left right", FALSE), rotateLeftRight(hp, n, err))
        ELSE IF bal < -1 THEN
            IF balanceFactor(hp, hp[n].right) <= 0
            THEN noted(Frame(n, bal, "right right", FALSE), rotateLeft(hp, n, err))
            ELSE noted(Frame(n, bal, "right left", FALSE), rotateRightLeft(hp, n, err))
        ELSE noted(Frame(n, bal, "none", FALSE), Res(hp, n, err, FALSE))

\* a deletion that, for a node with two children, deletes the key it was asked
\* for from the right subtree instead of the successor's key
RECURSIVE subtreeDeleteNode_sameKey(_, _, _)
subtreeDeleteNode_sameKey(hp, n, key) ==
    IF n = Nil THEN noted(Frame(Nil, 0, "not found", FALSE), Res(hp, Nil, ErrNotFound, FALSE))
    ELSE IF Less(key, hp[n].key) THEN
        LET r == subtreeDeleteNode_sameKey(hp, hp[n].left, key) IN
        IF r.panic THEN r
        ELSE after(r, deleteRebalance([r.hp EXCEPT ![n].left = r.n], n, r.err))
    ELSE IF Equal(key, hp[n].key) THEN
        IF hp[n].left = Nil \/ hp[n].right = Nil THEN
            LET tmp == IF hp[n].left = Nil THEN hp[n].right ELSE hp[n].left IN
            IF tmp = Nil THEN noted(Frame(n, 0, "removed", FALSE), Res(drop(hp, n), Nil, NoErr, FALSE))
            ELSE deleteRebalance(drop(hp, n), tmp, NoErr)
        ELSE
            LET tmp == subtreeMin(hp, hp[n].right)
                h1 == [hp EXCEPT ![n].key = hp[tmp].key]
                r == subtreeDeleteNode_sameKey(h1, h1[n].right, key)
            IN  IF r.panic THEN r
                ELSE after(r, copied(hp[tmp].key,
                                     deleteRebalance([r.hp EXCEPT ![n].right = r.n], n, r.err)))
    ELSE
        LET r == subtreeDeleteNode_sameKey(hp, hp[n].right, key) IN
        IF r.panic THEN r
        ELSE after(r, deleteRebalance([r.hp EXCEPT ![n].right = r.n], n, r.err))

RECURSIVE subtreeDeleteNode(_, _, _)
subtreeDeleteNode(hp, n, key) ==
    IF n = Nil THEN noted(Frame(Nil, 0, "not found", FALSE), Res(hp, Nil, ErrNotFound, FALSE))
    ELSE IF Less(key, hp[n].key) THEN
        LET r == subtreeDeleteNode(hp, hp[n].left, key) IN
        IF r.panic THEN r
        ELSE after(r, deleteRebalance([r.hp EXCEPT ![n].left = r.n], n, r.err))
    ELSE IF Equal(key, hp[n].key) THEN
        IF hp[n].left = Nil \/ hp[n].right = Nil THEN
            LET tmp == IF hp[n].left = Nil THEN hp[n].right ELSE hp[n].left IN
            IF tmp = Nil THEN noted(Frame(n, 0, "removed", FALSE), Res(drop(hp, n), Nil, NoErr, FALSE))
            ELSE deleteRebalance(drop(hp, n), tmp, NoErr)
        ELSE
            LET tmp == subtreeMin(hp, hp[n].right)
                h1 == [hp EXCEPT ![n].key = hp[tmp].key]
                r == subtreeDeleteNode(h1, h1[n].right, hp[tmp].key)
            IN  IF r.panic THEN r
                ELSE after(r, copied(hp[tmp].key,
                                     deleteRebalance([r.hp EXCEPT ![n].right = r.n], n, r.err)))
    ELSE
        LET r == subtreeDeleteNode(hp, hp[n].right, key) IN
        IF r.panic THEN r
        ELSE after(r, deleteRebalance([r.hp EXCEPT ![n].right = r.n], n, r.err))

RECURSIVE subtreeInOrder(_, _)
subtreeInOrder(hp, n) ==
    IF n = Nil THEN <<>>
    ELSE subtreeInOrder(hp, hp[n].left) \o <<hp[n].key>> \o subtreeInOrder(hp, hp[n].right)

RECURSIVE subtreePreOrder(_, _)
subtreePreOrder(hp, n) ==
    IF n = Nil THEN <<>>
    ELSE <<hp[n].key>> \o subtreePreOrder(hp, hp[n].left) \o subtreePreOrder(hp, hp[n].right)

\* ---------------------------------------------------------------------- Tree
\* A Tree value: what the methods read and write.
TreeOf(hp, r, sz) == [hp |-> hp, root |-> r, size |-> sz]

\* an Insert that counts the key whatever the error
TreeInsert_countsAlways(t, key) ==
    LET r == subtreeInsertNode(t.hp, t.root, key) IN
    IF r.panic THEN [t |-> TreeOf(r.hp, t.root, t.size), err |-> NoErr, panic |-> TRUE, log |-> r.log]
    ELSE [t |-> TreeOf(r.hp, r.n, t.size + 1), err |-> r.err, panic |-> FALSE, log |-> r.log]

\* Tree.Insert, once subtreeInsertNode returned r: t.root is assigned and, with
\* a nil error, t.size++
inserted(t, r) ==
    IF r.panic THEN [t |-> TreeOf(r.hp, t.root, t.size), err |-> NoErr, panic |-> TRUE, log |-> r.log]
    ELSE [t |-> TreeOf(r.hp, r.n, IF r.err = NoErr THEN t.size + 1 ELSE t.size),
          err |-> r.err, panic |-> FALSE, log |-> r.log]

\* Tree.Insert: the tree afterwards, the error, whether it crashed
TreeInsert(t, key) == inserted(t, subtreeInsertNode(t.hp, t.root, key))

\* a Delete that leaves the size alone
TreeDelete_noCount(t, key) ==
    LET r == subtreeDeleteNode(t.hp, t.root, key) IN
    IF r.panic THEN [t |-> TreeOf(r.hp, t.root, t.size), err |-> NoErr, panic |-> TRUE, log |-> r.log]
    ELSE [t |-> TreeOf(r.hp, r.n, t.size), err |-> r.err, panic |-> FALSE, log |-> r.log]

\* a Delete that takes one off the size whatever the error
TreeDelete_countsAlways(t, key) ==
    LET r == subtreeDeleteNode(t.hp, t.root, key) IN
    IF r.panic THEN [t |-> TreeOf(r.hp, t.root, t.size), err |-> NoErr, panic |-> TRUE, log |-> r.log]
    ELSE [t |-> TreeOf(r.hp, r.n, t.size - 1), err |-> r.err, panic |-> FALSE, log |-> r.log]

\* Tree.Delete, once subtreeDeleteNode returned r: t.root is assigned and, with
\* a nil error, t.size--
deleted(t, r) ==
    IF r.panic THEN [t |-> TreeOf(r.hp, t.root, t.size), err |-> NoErr, panic |-> TRUE, log |-> r.log]
    ELSE [t |-> TreeOf(r.hp, r.n, IF r.err = NoErr THEN t.size - 1 ELSE t.size),
          err |-> r.err, panic |-> FALSE, log |-> r.log]

\* Tree.Delete
TreeDelete(t, key) == deleted(t, subtreeDeleteNode(t.hp, t.root, key))

\* a Min without the check of the root: subtreeMin reads nil.left
TreeMin_noCheck(t) ==
    IF t.root = Nil THEN [key |-> NoKey, err |-> NoErr, panic |-> TRUE, log |-> <<>>]
    ELSE [key |-> t.hp[subtreeMin(t.hp, t.root)].key, err |-> NoErr, panic |-> FALSE, log |-> <<>>]

\* Tree.Min: the key, the error, whether it crashed
TreeMin(t) ==
    IF t.root = Nil THEN [key |-> NoKey, err |-> ErrEmpty, panic |-> FALSE, log |-> <<>>]
    ELSE [key |-> t.hp[subtreeMin(t.hp, t.root)].key, err |-> NoErr, panic |-> FALSE, log |-> <<>>]

\* Tree.Max
TreeMax(t) ==
    IF t.root = Nil THEN [key |-> NoKey, err |-> ErrEmpty, panic |-> FALSE, log |-> <<>>]
    ELSE [key |-> t.hp[subtreeMax(t.hp, t.root)].key, err |-> NoErr, panic |-> FALSE, log |-> <<>>]

Size == size
Height == height(heap, root)
InOrder == subtreeInOrder(heap, root)
PreOrder == subtreePreOrder(heap, root)

Cur == TreeOf(heap, root, size)

\* ------------------------------------------------------------- addresses
\* The program never compares or prints an address, so a state is kept up to
\* the renaming of addresses: between calls the nodes are numbered in
\* pre-order from the root.  A heap that is not a tree is left as it is.
RECURSIVE walk(_, _, _)
walk(hp, n, fuel) ==
    IF n = Nil \/ fuel = 0 THEN <<>>
    ELSE <<n>> \o walk(hp, hp[n].left, fuel - 1) \o walk(hp, hp[n].right, fuel - 1)

Nodes(hp, r) == walk(hp, r, Cardinality(DOMAIN hp) + 1)

IsTree(hp, r) ==
    LET p == Nodes(hp, r) IN \A i, j \in 1..Len(p) : p[i] = p[j] => i = j

Renumber(hp, r) ==
    IF ~IsTree(hp, r) THEN [hp |-> hp, root |-> r]
    ELSE LET p == Nodes(hp, r)
             at(o) == IF o = Nil THEN Nil ELSE CHOOSE i \in 1..Len(p) : p[i] = o
         IN  [hp |-> [i \in DOMAIN hp |->
                        IF i <= Len(p)
                        THEN [key |-> hp[p[i]].key, left |-> at(hp[p[i]].left),
                              right |-> at(hp[p[i]].right), h |-> hp[p[i]].h]
                        ELSE FreeCell],
              root |-> at(r)]

\* the first error a sequence of two calls returned
firstErr(e1, e2) == IF e1 /= NoErr THEN e1 ELSE e2

\* ------------------------------------------------------------------ actions
\* NewTree
Init ==
    /\ heap = [i \in NodeIds |-> FreeCell]
    /\ root = Nil
    /\ size = 0
    /\ panic = FALSE
    /\ ret = [op |-> "NewTree", key |-> NoKey, err |-> NoErr, log |-> <<>>]
    /\ S = {}
    /\ netOk = 0

\* the tree t becomes the state
Store(t) ==
    LET c == Renumber(t.hp, t.root) IN
    /\ heap' = c.hp
    /\ root' = c.root
    /\ size' = t.size

\* 1 for a call that returned a nil error
ok(c) == IF c.err = NoErr /\ ~c.panic THEN 1 ELSE 0

\* the call op(key) returned c; s is the set of keys it describes and d what
\* a nil error adds to the count of keys
Returned(op, key, c, s, d) ==
    /\ panic' = c.panic
    /\ ret' = [op |-> op, key |-> key, err |-> c.err, log |-> c.log]
    /\ S' = s
    /\ netOk' = netOk + d * ok(c)

\* a call that writes the tree returned c
Updated(op, key, c, s, d) ==
    /\ Store(c.t)
    /\ Returned(op, key, c, s, d)

\* a call that only reads the tree returned c
Queried(op, c) ==
    /\ Returned(op, c.key, c, S, 0)
    /\ UNCHANGED <<heap, root, size>>

Insert(key) ==
    /\ ~panic
    /\ FreeIds(heap) /= {}
    /\ Updated("Insert", key, TreeInsert(Cur, key), S \cup {key}, 1)

Delete(key) ==
    /\ ~panic
    /\ Updated("Delete", key, TreeDelete(Cur, key), S \ {key}, -1)

Min ==
    /\ ~panic
    /\ Queried("Min", TreeMin(Cur))

Max ==
    /\ ~panic
    /\ Queried("Max", TreeMax(Cur))

\* the calls of a test returned a and then c; m is the key they were about
\* and d what the nil errors add to the count of keys
ReturnedBoth(op, m, a, c, s, d) ==
    /\ Store(c.t)
    /\ panic' = (a.panic \/ c.panic)
    /\ ret' = [op |-> op, key |-> m, err |-> firstErr(a.err, c.err), log |-> a.log \o c.log]
    /\ S' = s
    /\ netOk' = netOk + d

\* Min or Max returned a, then Delete(a.key) returned c
foundDeleted(op, a, c) == ReturnedBoth(op, a.key, a, c, S \ {a.key}, 0 - ok(c))

\* Delete(a.key) for the result a of Min or Max
deleteFound(op, a) == foundDeleted(op, a, TreeDelete(Cur, a.key))

\* one round of the loop of TestMinDelete: m, err := Min(); Delete(m)
MinDelete ==
    /\ ~panic
    /\ size > 0
    /\ deleteFound("MinDelete", TreeMin(Cur))

\* one round of the loop of TestMaxDelete: m, err := Max(); Delete(m)
MaxDelete ==
    /\ ~panic
    /\ size > 0
    /\ deleteFound("MaxDelete", TreeMax(Cur))

\* Insert(key) returned a, then Delete(key) returned c
insertedDeleted(key, a, c) ==
    ReturnedBoth("InsertDelete", key, a, c, (S \cup {key}) \ {key}, ok(a) - ok(c))

\* Delete(key) on what Insert(key) returned
deleteInserted(key, a) == insertedDeleted(key, a, TreeDelete(a.t, key))

\* Insert(key) immediately followed by Delete(key), as in TestHeight
InsertDelete(key) ==
    /\ ~panic
    /\ FreeIds(heap) /= {}
    /\ deleteInserted(key, TreeInsert(Cur, key))

Next ==
    \/ \E key \in Keys : Insert(key)
    \/ \E key \in Keys : Delete(key)
    \/ Min
    \/ Max
    \/ MinDelete
    \/ MaxDelete
    \/ \E key \in Keys : InsertDelete(key)

Spec == Init /\ [][Next]_vars

\* ------------------------------------------------------- what the claims say
\* the nodes reachable from r, and the keys they hold
NodeSet(hp, r) == LET p == Nodes(hp, r) IN {p[i] : i \in 1..Len(p)}
KeysIn(hp, r) == {hp[n].key : n \in NodeSet(hp, r)}

\* the height the links give (nodes on the longest path down), whatever h says
RECURSIVE trueHeight(_, _)
trueHeight(hp, n) ==
    IF n = Nil THEN 0
    ELSE 1 + max(trueHeight(hp, hp[n].left), trueHeight(hp, hp[n].right))

\* the ascending listing of a set of keys
RECURSIVE Ascending(_)
Ascending(s) ==
    IF s = {} THEN <<>>
    ELSE LET m == CHOOSE x \in s : \A y \in s : x <= y
         IN  <<m>> \o Ascending(s \ {m})

SetMin(s) == CHOOSE x \in s : \A y \in s : x <= y
SetMax(s) == CHOOSE x \in s : \A y \in s : x >= y

\* shape, keys and cached heights of the subtree of n, without the addresses
RECURSIVE Struct(_, _)
Struct(hp, n) ==
    IF n = Nil THEN <<>>
    ELSE <<hp[n].key, hp[n].h, Struct(hp, hp[n].left), Struct(hp, hp[n].right)>>

\* every node of the tree of r has a balance factor, by true heights, of -1, 0 or 1
Balanced(hp, r) ==
    \A n \in NodeSet(hp, r) :
        trueHeight(hp, hp[n].left) - trueHeight(hp, hp[n].right) \in {-1, 0, 1}

\* the scenario of TestSimplePreorder: nine inserts, then Delete(10)
RECURSIVE insertAll(_, _)
insertAll(t, keys) ==
    IF keys = <<>> THEN t ELSE insertAll(TreeInsert(t, Head(keys)).t, Tail(keys))

Scenario ==
    TreeDelete(insertAll(TreeOf([i \in NodeIds |-> FreeCell], Nil, 0),
                         <<9, 5, 10, 0, 6, 11, -1, 1, 2>>), 10).t

\* C1: after every call, every node reachable from the root has a balance
\* factor (true height of the left subtree minus true height of the right
\* subtree) of -1, 0 or 1; and the scenario (insert 9,5,10,0,6,11,-1,1,2,
\* delete 10) ends balanced with the in-order listing -1,0,1,2,5,6,9,11.
C1_Balance ==
    /\ Balanced(heap, root)
    /\ Balanced(Scenario.hp, Scenario.root)
    /\ subtreeInOrder(Scenario.hp, Scenario.root) = <<-1, 0, 1, 2, 5, 6, 9, 11>>

\* a successful Delete left a tree of height 3 that leans to one side
C1_Witness ==
    /\ ret.op = "Delete" /\ ret.err = NoErr
    /\ Height = 3
    /\ trueHeight(heap, heap[root].left) /= trueHeight(heap, heap[root].right)

\* C2: after every call the in-order traversal is strictly ascending: at
\* every node the keys of the left subtree are smaller and the keys of the
\* right subtree larger than the node's key, and no key occurs twice.
C2_Ordered ==
    /\ \A i, j \in 1..Len(InOrder) : i < j => InOrder[i] < InOrder[j]
    /\ \A n \in NodeSet(heap, root) :
        /\ \A k \in KeysIn(heap, heap[n].left) : k < heap[n].key
        /\ \A k \in KeysIn(heap, heap[n].right) : k > heap[n].key

\* a successful Delete left at least four keys in a tree whose root has two children
C2_Witness ==
    /\ ret.op = "Delete" /\ ret.err = NoErr
    /\ Len(InOrder) >= 4
    /\ heap[root].left /= Nil /\ heap[root].right /= Nil

\* C3: the tree refines the set S of keys (S + {k} on Insert(k), S - {k} on
\* Delete(k)): after every call InOrder() is the ascending listing of S.
C3_RefinesSet == InOrder = Ascending(S)

\* a Delete removed a key from a set that still holds five keys
C3_Witness ==
    /\ ret.op = "Delete" /\ ret.err = NoErr
    /\ Cardinality(S) = 5
    /\ InOrder = Ascending(S)

\* C4: Size() is the number of Insert calls that returned nil minus the
\* number of Delete calls that returned nil, and is the number of nodes
\* reachable from the root.
C4_Size ==
    /\ Size = netOk
    /\ Size = Len(Nodes(heap, root))
    /\ Size = Cardinality(NodeSet(heap, root))

\* an Insert that failed on a tree of three keys
C4_Witness ==
    /\ ret.op = "Insert" /\ ret.err = ErrDuplicate
    /\ Size = 3 /\ netOk = 3

\* C5: Insert(k) returns an error exactly when k is already stored; when it
\* does, Size() and the tree (shape, keys, cached heights) are as before.
C5_DuplicateInsert ==
    [][ret'.op = "Insert" =>
        /\ (ret'.err /= NoErr) <=> (ret'.key \in KeysIn(heap, root))
        /\ ret'.err /= NoErr =>
            /\ ret'.err = ErrDuplicate
            /\ size' = size
            /\ Struct(heap', root') = Struct(heap, root)]_vars

\* an Insert of a stored key failed on a tree of height 3
C5_Witness ==
    /\ ret.op = "Insert" /\ ret.err = ErrDuplicate
    /\ ret.key \in KeysIn(heap, root)
    /\ Height = 3

\* C6: Delete(k) returns an error exactly when k is not stored (the empty
\* tree included); when it does, Size() and the tree are as before.
C6_DeleteMissing ==
    [][ret'.op = "Delete" =>
        /\ (ret'.err /= NoErr) <=> (ret'.key \notin KeysIn(heap, root))
        /\ ret'.err /= NoErr =>
            /\ ret'.err = ErrNotFound
            /\ size' = size
            /\ Struct(heap', root') = Struct(heap, root)]_vars

\* a Delete of a missing key failed on a tree of height 3
C6_Witness ==
    /\ ret.op = "Delete" /\ ret.err = ErrNotFound
    /\ ret.key \notin KeysIn(heap, root)
    /\ Height = 3

\* C7: on a non-empty tree Min() returns the smallest and Max() the largest
\* stored key, with a nil error; so a round 'm := Min(); Delete(m)' (or Max)
\* succeeds and removes exactly the smallest (largest) stored key, and
\* consecutive rounds remove keys in ascending (descending) order.
C7_MinMax ==
    [][/\ ret'.op \in {"Min", "MinDelete"} /\ size > 0 =>
            /\ ret'.err = NoErr
            /\ ret'.key = SetMin(KeysIn(heap, root))
       /\ ret'.op \in {"Max", "MaxDelete"} /\ size > 0 =>
            /\ ret'.err = NoErr
            /\ ret'.key = SetMax(KeysIn(heap, root))
       /\ ret'.op \in {"MinDelete", "MaxDelete"} =>
            /\ KeysIn(heap', root') = KeysIn(heap, root) \ {ret'.key}
            /\ size' = size - 1
       /\ ret.op = "MinDelete" /\ ret'.op = "MinDelete" => ret'.key > ret.key
       /\ ret.op = "MaxDelete" /\ ret'.op = "MaxDelete" => ret'.key < ret.key]_vars

\* a round of Max-then-Delete took the largest key off a tree that keeps four
C7_Witness ==
    /\ ret.op = "MaxDelete" /\ ret.err = NoErr
    /\ size = 4
    /\ \A k \in KeysIn(heap, root) : k < ret.key

\* C8: Min() and Max() return an error exactly when the tree holds no keys,
\* and return it without dereferencing the absent root.
C8_EmptyError ==
    /\ (root = Nil) <=> (size = 0)
    /\ ~panic
    /\ ret.op \in {"Min", "Max"} =>
        /\ (ret.err /= NoErr) <=> (size = 0)
        /\ ret.err /= NoErr => ret.err = ErrEmpty /\ root = Nil

\* Max() failed on a tree that holds nothing
C8_Witness ==
    /\ ret.op = "Max" /\ ret.err = ErrEmpty
    /\ size = 0 /\ root = Nil

\* C9, as claimed: Insert(k) followed by Delete(k) leaves Size() and
\* InOrder() as before the Insert, for any key k.
C9_RoundTripAnyKey ==
    [][ret'.op = "InsertDelete" =>
        /\ size' = size
        /\ subtreeInOrder(heap', root') = subtreeInOrder(heap, root)]_vars

\* C9, amended: for a key k that is not stored, Insert(k) followed by
\* Delete(k) both return nil and leave Size() and InOrder() as before.
C9_RoundTrip ==
    [][ret'.op = "InsertDelete" /\ ret'.key \notin KeysIn(heap, root) =>
        /\ ret'.err = NoErr
        /\ size' = size
        /\ subtreeInOrder(heap', root') = subtreeInOrder(heap, root)]_vars

\* a round trip of a key that was not stored, on a tree of five keys
C9_Witness ==
    /\ ret.op = "InsertDelete" /\ ret.err = NoErr
    /\ ret.key \notin KeysIn(heap, root)
    /\ size = 5

\* C10: every reachable node's cached height is 1 + the larger of the true
\* heights of its subtrees (absent: 0), so Height() is the true height of
\* the tree and 0 for the empty tree.
C10_CachedHeight ==
    /\ \A n \in NodeSet(heap, root) :
        heap[n].h = 1 + max(trueHeight(heap, heap[n].left), trueHeight(heap, heap[n].right))
    /\ Height = trueHeight(heap, root)
    /\ root = Nil => Height = 0

\* a Delete brought a tree down to height 3 with a leaf next to a subtree of height 2
C10_Witness ==
    /\ ret.op = "Delete" /\ ret.err = NoErr
    /\ Height = 3
    /\ \E n \in NodeSet(heap, root) :
        /\ heap[n].left /= Nil /\ heap[n].right /= Nil
        /\ heap[heap[n].left].h /= heap[heap[n].right].h

\* ------------------------------------------------------------- TestHeight
\* TestHeight inserts the keys 0, 1, 2, ... in ascending order; after the key
\* 2^exp - 1 it inserts SmallKey and deletes it again.  The test runs exp up
\* to 23; here the rounds 1..MaxExp are run.
MaxExp == 7

\* the key TestHeight inserts below all the others
SmallKey == -42

\* cells for the keys 0 .. 2^MaxExp - 1 and SmallKey
HeightNodes == 2^MaxExp + 1

\* NewTree, with a heap large enough for TestHeight
InitHeight ==
    /\ heap = [i \in 1..HeightNodes |-> FreeCell]
    /\ root = Nil
    /\ size = 0
    /\ panic = FALSE
    /\ ret = [op |-> "NewTree", key |-> NoKey, err |-> NoErr, log |-> <<>>]
    /\ S = {}
    /\ netOk = 0

\* the next key of the ascending sequence: the keys 0 .. nextKey - 1 are stored
nextKey == Cardinality(S \ {SmallKey})

\* nextKey - 1 was the key 2^exp - 1 of a round of the loop
roundFull == \E exp \in 1..MaxExp : nextKey = 2^exp

\* tree.Insert(Integer(i)): the first key, the keys of the inner loop and the
\* 2^exp-th key
InsertNextKey ==
    /\ nextKey < 2^MaxExp
    /\ \/ ret.op \in {"NewTree", "Delete"}
       \/ ret.op = "Insert" /\ ret.key /= SmallKey /\ ~roundFull
    /\ Insert(nextKey)

\* tree.Insert(Integer(-42)), after the 2^exp-th key
InsertSmallKey ==
    /\ ret.op = "Insert" /\ ret.key /= SmallKey /\ roundFull
    /\ Insert(SmallKey)

\* tree.Delete(Integer(-42))
DeleteSmallKey ==
    /\ ret.op = "Insert" /\ ret.key = SmallKey
    /\ Delete(SmallKey)

NextHeight == InsertNextKey \/ InsertSmallKey \/ DeleteSmallKey

SpecHeight == InitHeight /\ [][NextHeight]_vars

\* C11: Height() is 0 for no keys and 1 for one key; with the keys inserted
\* in ascending order, Height() is e once 2^e - 1 keys are stored and e + 1
\* once the 2^e-th key is stored, and it stays e + 1 when one further key,
\* smaller than all the stored ones, is inserted.
C11_AscendingHeight ==
    /\ size = 0 => Height = 0
    /\ size = 1 => Height = 1
    /\ \A e \in 1..MaxExp :
        /\ S = 0..(2^e - 2) => Height = e
        /\ S = 0..(2^e - 1) => Height = e + 1
        /\ S = (0..(2^e - 1)) \cup {SmallKey} => Height = e + 1

\* the third round of TestHeight inserted SmallKey below the eight keys 0..7
C11_Witness ==
    /\ ret.op = "Insert" /\ ret.key = SmallKey /\ ret.err = NoErr
    /\ S = (0..7) \cup {SmallKey}
    /\ size = 9
    /\ Height = 4

\* the least number of nodes of an AVL tree of height h
RECURSIVE minNodes(_)
minNodes(h) ==
    IF h = 0 THEN 0 ELSE IF h = 1 THEN 1 ELSE minNodes(h - 1) + minNodes(h - 2) + 1

\* C12: a tree of height h stores at least N(h) keys, where N(0) = 0,
\* N(1) = 1 and N(h) = N(h-1) + N(h-2) + 1; this holds of Height() and
\* Size(), and of the longest path and the number of nodes.
C12_HeightBound ==
    /\ size >= minNodes(Height)
    /\ Cardinality(NodeSet(heap, root)) >= minNodes(trueHeight(heap, root))

\* a tree of height 4 with the least number of keys, 7
C12_Witness ==
    /\ ret.op = "Insert" /\ ret.err = NoErr
    /\ Height = 4
    /\ size = minNodes(4)

\* the cases of the frames of the last call
casesOf(log) == {log[i].case : i \in DOMAIN log}

\* C13: no rotation of an Insert or Delete call on a reachable tree runs on a
\* node whose pivot child is absent (n.left for a right rotation, n.right for
\* a left rotation, the inner rotations of the double cases included): no
\* call has dereferenced a nil pointer, and none of the calls that can come
\* next does.
C13_RotationsSafe ==
    /\ panic = FALSE
    /\ \A k \in Keys :
        /\ ~TreeInsert(Cur, k).panic
        /\ ~TreeDelete(Cur, k).panic

\* a Delete that went through the right-left case: two rotations, the inner
\* one on n.right
C13_Witness ==
    /\ ret.op = "Delete" /\ ret.err = NoErr
    /\ "right left" \in casesOf(ret.log)
    /\ panic = FALSE

LeftCases == {"left left", "left right"}
RightCases == {"right left", "right right"}

\* C14: in every frame of an Insert, when the balance factor of step 3 is
\* above 1 or below -1 the key is not equal to the key of the child it is
\* compared with, one of the four cases is taken (a left case for bal > 1, a
\* right case for bal < -1, none otherwise), and the subtree the frame returns
\* has a balance factor in {-1, 0, 1}.
C14_InsertCases ==
    ret.op = "Insert" =>
        \A i \in DOMAIN ret.log :
            /\ ~ret.log[i].eq
            /\ ret.log[i].bal > 1 <=> ret.log[i].case \in LeftCases
            /\ ret.log[i].bal < -1 <=> ret.log[i].case \in RightCases
            /\ ret.log[i].out \in {-1, 0, 1}

\* an Insert that took the left-right case in one frame and no case in the
\* frames above it
C14_Witness ==
    /\ ret.op = "Insert" /\ ret.err = NoErr
    /\ \E i \in DOMAIN ret.log :
        /\ ret.log[i].case = "left right"
        /\ ret.log[i].bal = 2
        /\ i < Len(ret.log)

\* the node of the tree of r that holds key, Nil when there is none
nodeOf(hp, r, key) ==
    IF \E n \in NodeSet(hp, r) : hp[n].key = key
    THEN CHOOSE n \in NodeSet(hp, r) : hp[n].key = key
    ELSE Nil

twoChildren(hp, n) == n /= Nil /\ hp[n].left /= Nil /\ hp[n].right /= Nil

\* s without its element k
without(s, k) == SelectSeq(s, LAMBDA x : x /= k)

\* subtreeDeleteNode(key) on the tree of r0 returned r; n held key and s held
\* the in-order successor of key: n is still in the tree and holds the
\* successor's key, s is the one node that left the tree, and no frame of the
\* recursion found the key missing
successorTaken(hp, r0, key, n, s, r) ==
    /\ r.err = NoErr /\ ~r.panic
    /\ n \in NodeSet(r.hp, r.n)
    /\ r.hp[n].key = hp[s].key
    /\ NodeSet(r.hp, r.n) = NodeSet(hp, r0) \ {s}
    /\ s /= n
    /\ hp[s].key = SetMin({k \in KeysIn(hp, r0) : k > key})
    /\ "not found" \notin casesOf(r.log)
    /\ subtreeInOrder(r.hp, r.n) = without(subtreeInOrder(hp, r0), key)

\* Delete(key) on the current tree, key being held by the node n
twoChildrenDelete(key, n) ==
    successorTaken(heap, root, key, n, subtreeMin(heap, heap[n].right),
                   subtreeDeleteNode(heap, root, key))

\* C15: a Delete of a key held by a node with two children keeps the node,
\* which receives the key of its in-order successor; the one node that leaves
\* the tree is the one that held the successor's key; the inner recursive
\* delete never reports the key missing; Delete returns nil and Size()
\* decreases by 1.
C15_TwoChildrenDelete ==
    [][(ret'.op = "Delete" /\ twoChildren(heap, nodeOf(heap, root, ret'.key)))
        => /\ twoChildrenDelete(ret'.key, nodeOf(heap, root, ret'.key))
           /\ ret'.err = NoErr
           /\ size' = size - 1
           /\ \E i \in DOMAIN ret'.log : ret'.log[i].succ /= NoKey]_vars

\* a Delete whose frame at the node of the key copied the successor's key,
\* with frames below it for the delete of the successor
C15_Witness ==
    /\ ret.op = "Delete" /\ ret.err = NoErr
    /\ \E i \in DOMAIN ret.log :
        /\ ret.log[i].succ > ret.key
        /\ i > 1
        /\ i < Len(ret.log)
    /\ ret.log[1].case = "none"

\* ---------------------------------------------------------------- rotations
\* The rotations on their own: a tree is built with Insert, then its root is
\* rotated any number of times, which gives subtrees that are not balanced.
\* Keys are 1..MaxRotKey.
MaxRotKey == 5

RotKeys == 1..MaxRotKey

\* t.root = t.root.subtreeRotate...() returned b
rotated(op, b) ==
    /\ Store(TreeOf(b.hp, b.n, size))
    /\ panic' = b.panic
    /\ ret' = [op |-> op, key |-> heap[root].key, err |-> NoErr, log |-> <<>>]
    /\ UNCHANGED <<S, netOk>>

\* an Insert while the tree is being built
BuildInsert(key) ==
    /\ ret.op \in {"NewTree", "Insert"}
    /\ Insert(key)

RotateRight ==
    /\ ~panic
    /\ root /= Nil
    /\ heap[root].left /= Nil
    /\ rotated("RotateRight", subtreeRotateRight(heap, root))

RotateLeft ==
    /\ ~panic
    /\ root /= Nil
    /\ heap[root].right /= Nil
    /\ rotated("RotateLeft", subtreeRotateLeft(heap, root))

NextRotate ==
    \/ \E key \in RotKeys : BuildInsert(key)
    \/ RotateRight
    \/ RotateLeft

SpecRotate == Init /\ [][NextRotate]_vars

\* every node of the subtree of n caches the height its links give
heightsOK(hp, n) == \A x \in NodeSet(hp, n) : hp[x].h = trueHeight(hp, x)

\* the rotation of the subtree of n returned b; m was the child to promote
rotationOK(hp, n, m, b) ==
    /\ ~b.panic
    /\ b.n = m
    /\ subtreeInOrder(b.hp, b.n) = subtreeInOrder(hp, n)
    /\ \A x \in DOMAIN hp \ {n, m} : b.hp[x] = hp[x]
    /\ b.hp[n].h = trueHeight(b.hp, n)
    /\ b.hp[m].h = trueHeight(b.hp, m)

\* C16: for every subtree rooted at n whose descendants cache correct heights,
\* with n.left present, subtreeRotateRight returns the former left child as the
\* new root, leaves the in-order sequence of keys as it was, changes no field
\* of a node other than n and the promoted node, and leaves the cached heights
\* of n and of the promoted node correct; subtreeRotateLeft likewise with
\* n.right.
C16_Rotations ==
    \A n \in NodeSet(heap, root) :
        (heightsOK(heap, heap[n].left) /\ heightsOK(heap, heap[n].right)) =>
            /\ heap[n].left /= Nil =>
                 rotationOK(heap, n, heap[n].left, subtreeRotateRight(heap, n))
            /\ heap[n].right /= Nil =>
                 rotationOK(heap, n, heap[n].right, subtreeRotateLeft(heap, n))

\* the root was rotated right with all of t1, t2 and t3 present: the promoted
\* node has a left subtree, and the old root below it has both subtrees
C16_Witness ==
    /\ ret.op = "RotateRight"
    /\ ~panic
    /\ heap[root].left /= Nil
    /\ twoChildren(heap, heap[root].right)
    /\ heap[heap[root].right].key = ret.key

\* ------------------------------------------------------ the int-keyed variant
\* The variant of the package whose keys are int (src/avl.go, second package
\* text): keys are compared with < and >, the branches are ordered less /
\* greater / else, and step 3 of the insertion is a nested switch.  Its
\* treeNode, newNode, height, rotations, balanceFactor, subtreeMin and the
\* Tree methods have the text of the Item-keyed ones, and use their model.

\* subtreeInsertNode (int), steps 2 and 3; with bal out of range and the key
\* equal to the child's, neither inner case is taken and n is returned
intInsertRebalance(hp0, n, key, err) ==
    LET hp == updateHeight(hp0, n)
        bal == balanceFactor(hp, n)
    IN  IF bal > 1 THEN
            IF key < hp[hp[n].left].key THEN rotateRight(hp, n, err)
            ELSE IF key > hp[hp[n].left].key THEN rotateLeftRight(hp, n, err)
            ELSE Res(hp, n, err, FALSE)
        ELSE IF bal < -1 THEN
            IF key > hp[hp[n].right].key THEN rotateLeft(hp, n, err)
            ELSE IF key < hp[hp[n].right].key THEN rotateRightLeft(hp, n, err)
            ELSE Res(hp, n, err, FALSE)
        ELSE Res(hp, n, err, FALSE)

RECURSIVE intSubtreeInsertNode(_, _, _)
intSubtreeInsertNode(hp, n, key) ==
    IF n = Nil THEN
        LET a == newNode(hp, key) IN Res(a.hp, a.n, NoErr, FALSE)
    ELSE IF key < hp[n].key THEN
        LET r == intSubtreeInsertNode(hp, hp[n].left, key) IN
        IF r.panic THEN r
        ELSE intInsertRebalance([r.hp EXCEPT ![n].left = r.n], n, key, r.err)
    ELSE IF key > hp[n].key THEN
        LET r == intSubtreeInsertNode(hp, hp[n].right, key) IN
        IF r.panic THEN r
        ELSE intInsertRebalance([r.hp EXCEPT ![n].right = r.n], n, key, r.err)
    ELSE
        Res(hp, n, ErrDuplicate, FALSE)

\* subtreeDeleteNode (int), steps 2 and 3
intDeleteRebalance(hp0, n, err) ==
    LET hp == updateHeight(hp0, n)
        bal == balanceFactor(hp, n)
    IN  IF bal > 1 THEN
            IF balanceFactor(hp, hp[n].left) >= 0 THEN rotateRight(hp, n, err)
            ELSE rotateLeftRight(hp, n, err)
        ELSE IF bal < -1 THEN
            IF balanceFactor(hp, hp[n].right) <= 0 THEN rotateLeft(hp, n, err)
            ELSE rotateRightLeft(hp, n, err)
        ELSE Res(hp, n, err, FALSE)

RECURSIVE intSubtreeDeleteNode(_, _, _)
intSubtreeDeleteNode(hp, n, key) ==
    IF n = Nil THEN Res(hp, Nil, ErrNotFound, FALSE)
    ELSE IF key < hp[n].key THEN
        LET r == intSubtreeDeleteNode(hp, hp[n].left, key) IN
        IF r.panic THEN r
        ELSE intDeleteRebalance([r.hp EXCEPT ![n].left = r.n], n, r.err)
    ELSE IF key > hp[n].key THEN
        LET r == intSubtreeDeleteNode(hp, hp[n].right, key) IN
        IF r.panic THEN r
        ELSE intDeleteRebalance([r.hp EXCEPT ![n].right = r.n], n, r.err)
    ELSE
        IF hp[n].left = Nil \/ hp[n].right = Nil THEN
            LET tmp == IF hp[n].left = Nil THEN hp[n].right ELSE hp[n].left IN
            IF tmp = Nil THEN Res(drop(hp, n), Nil, NoErr, FALSE)
            ELSE intDeleteRebalance(drop(hp, n), tmp, NoErr)
        ELSE
            LET tmp == subtreeMin(hp, hp[n].right)
                h1 == [hp EXCEPT ![n].key = hp[tmp].key]
                r == intSubtreeDeleteNode(h1, h1[n].right, hp[tmp].key)
            IN  IF r.panic THEN r
                ELSE intDeleteRebalance([r.hp EXCEPT ![n].right = r.n], n, r.err)

\* Tree.Insert and Tree.Delete of the int-keyed variant
IntTreeInsert(t, key) == inserted(t, intSubtreeInsertNode(t.hp, t.root, key))
IntTreeDelete(t, key) == deleted(t, intSubtreeDeleteNode(t.hp, t.root, key))

\* two calls returned the same error and left trees of the same shape (keys
\* and cached heights in pre-order, with the structure) and Size()
sameOutcome(a, b) ==
    /\ a.err = b.err
    /\ a.panic = b.panic
    /\ a.t.size = b.t.size
    /\ subtreePreOrder(a.t.hp, a.t.root) = subtreePreOrder(b.t.hp, b.t.root)
    /\ Struct(a.t.hp, a.t.root) = Struct(b.t.hp, b.t.root)

\* C17: the Item-keyed Tree and the int-keyed Tree return errors on the same
\* calls and end with trees of identical shape and Size(): from every tree the
\* calls so far have built, every Insert and every Delete has the same outcome
\* in both variants, so the two stay equal along every sequence of calls.
C17_Variants ==
    \A k \in Keys :
        /\ sameOutcome(TreeInsert(Cur, k), IntTreeInsert(Cur, k))
        /\ sameOutcome(TreeDelete(Cur, k), IntTreeDelete(Cur, k))

\* a tree built with a double rotation on which both variants refuse a
\* duplicate of the root's key, delete the root (two children) and reject a
\* missing key
C17_Witness ==
    /\ ret.op = "Insert" /\ "right left" \in casesOf(ret.log)
    /\ twoChildren(heap, root)
    /\ IntTreeInsert(Cur, heap[root].key).err = ErrDuplicate
    /\ IntTreeDelete(Cur, heap[root].key).err = NoErr
    /\ \E k \in Keys : IntTreeDelete(Cur, k).err = ErrNotFound
    /\ \E k \in Keys : "left right" \in casesOf(TreeInsert(Cur, k).log)

\* the number of child pointers of allocated nodes that point to x
links(hp, x) ==
    Cardinality({n \in DOMAIN hp : hp[n].h > 0 /\ hp[n].left = x})
    + Cardinality({n \in DOMAIN hp : hp[n].h > 0 /\ hp[n].right = x})

\* C18: after every call the nodes reachable from the root form a tree: no
\* node is met twice on the way down (no cycle, no shared node), the root is
\* the child of no node, and every other node is the child of exactly one
\* node, on one side only.
C18_SingleOwner ==
    /\ IsTree(heap, root)
    /\ \A x \in NodeSet(heap, root) : links(heap, x) = IF x = root THEN 0 ELSE 1

\* a Delete that copied a successor's key and rotated, on a tree of at least
\* four nodes
C18_Witness ==
    /\ ret.op = "Delete" /\ ret.err = NoErr
    /\ \E i \in DOMAIN ret.log : ret.log[i].succ /= NoKey
    /\ casesOf(ret.log) \cap (LeftCases \cup RightCases) /= {}
    /\ size >= 4
    /\ IsTree(heap, root)

\* iterations of the loop of subtreeMin and of subtreeMax from the node n
RECURSIVE minLoop(_, _)
minLoop(hp, n) == IF hp[n].left /= Nil THEN 1 + minLoop(hp, hp[n].left) ELSE 0

RECURSIVE maxLoop(_, _)
maxLoop(hp, n) == IF hp[n].right /= Nil THEN 1 + maxLoop(hp, hp[n].right) ELSE 0

\* C19: every call returns, and the recursion of subtreeInsertNode and of
\* subtreeDeleteNode is never nested deeper than Height() + 1 frames, Height()
\* taken before the call (the delete of a node with two children, which goes
\* on into the right subtree, included); the loops of Min and Max take fewer
\* than Height() iterations.
C19_Depth ==
    [][/\ ret'.op \in {"Insert", "Delete"} => Len(ret'.log) <= Height + 1
       /\ (ret'.op = "Min" /\ root /= Nil) => minLoop(heap, root) < Height
       /\ (ret'.op = "Max" /\ root /= Nil) => maxLoop(heap, root) < Height]_vars

\* a Delete of a key that is not stored went down a longest path of a tree of
\* height 3 and one frame further, for the absent subtree
C19_Witness ==
    /\ ret.op = "Delete" /\ ret.err = ErrNotFound
    /\ Height = 3
    /\ Len(ret.log) = Height + 1
    /\ ret.log[1].case = "not found"

\* the frames of a call that took one of the four cases
rebalanced(log) == {i \in DOMAIN log : log[i].case \in LeftCases \cup RightCases}

\* C20: one Insert rebalances at most one node of the insertion path (one
\* single or one double rotation in all): at most one frame finds a balance
\* factor outside {-1, 0, 1}, at most one frame takes one of the four cases,
\* and every frame above it (an ancestor) finds its balance factor within
\* {-1, 0, 1}.
C20_OneRebalance ==
    ret.op = "Insert" =>
        /\ Cardinality(rebalanced(ret.log)) <= 1
        /\ Cardinality({i \in DOMAIN ret.log : ret.log[i].bal \notin {-1, 0, 1}}) <= 1
        /\ \A i \in rebalanced(ret.log) :
            \A j \in DOMAIN ret.log : j > i => ret.log[j].bal \in {-1, 0, 1}

\* an Insert that rotated once, at a node below the root, whose frame found
\* the balance factor within range afterwards
C20_Witness ==
    /\ ret.op = "Insert" /\ ret.err = NoErr
    /\ \E i \in rebalanced(ret.log) :
        /\ ret.log[i].case = "right right"
        /\ i < Len(ret.log)
        /\ ret.log[Len(ret.log)].case = "none"
    /\ Cardinality(rebalanced(ret.log)) = 1

\* C21: one call changes the height by at most one: after an Insert that
\* returned nil Height() is what it was or one more, after a Delete that
\* returned nil what it was or one less, and after an Insert or Delete that
\* returned an error what it was; the same holds of the longest path the
\* links give.
C21_HeightStep ==
    [][/\ (ret'.op = "Insert" /\ ret'.err = NoErr) =>
            /\ Height' \in {Height, Height + 1}
            /\ trueHeight(heap', root') - trueHeight(heap, root) \in {0, 1}
       /\ (ret'.op = "Delete" /\ ret'.err = NoErr) =>
            /\ Height' \in {Height, Height - 1}
            /\ trueHeight(heap, root) - trueHeight(heap', root') \in {0, 1}
       /\ (ret'.op \in {"Insert", "Delete"} /\ ret'.err /= NoErr) =>
            /\ Height' = Height
            /\ trueHeight(heap', root') = trueHeight(heap, root)]_vars

\* a Delete whose frame at the root took the left-right case: the double
\* rotation left the tree one lower than it was
C21_Witness ==
    /\ ret.op = "Delete" /\ ret.err = NoErr
    /\ Len(ret.log) >= 2
    /\ ret.log[Len(ret.log)].case = "left right"
    /\ ret.log[Len(ret.log)].bal = 2
    /\ Height = 2
    /\ size = 3

====
